---- MODULE Spec2Model ----
(***************************************************************************)
(* Model of devops/controller.py: the environment-lifecycle Controller,    *)
(* the address pool it owns (devops.network.IpNetworksPool) and the        *)
(* download cache kept under <home>/cache.                                 *)
(*                                                                         *)
(* One Controller runs one call at a time (build_environment,              *)
(* destroy_environment, save_environment, load_environment); a call is a   *)
(* sequence of steps, each of which may raise and end the call.  The       *)
(* filesystem and the backend driver outlive a Controller; the pool does   *)
(* not.                                                                    *)
(***************************************************************************)
EXTENDS Integers, Sequences, FiniteSets, TLC

\* ---------------------------------------------------------------- bounds
NumEnvs   == 2   \* Environment objects handed to the controller
NumNets   == 2   \* networks per environment
NumNodes  == 2   \* nodes per environment
NumDisks  == 2   \* disks per node
NumBlocks == 3   \* fixed-size blocks in the pool's address space
NumUrls   == 1   \* distinct remote image URLs
MaxTmp    == 2   \* names tempfile.mkstemp hands out in the cache directory
NumSuffix == 1   \* values randstr() can return
NumProcs    == 2   \* processes inside _cache_file at the same time
NumRaceUrls == 2   \* URLs those processes ask for
MaxRaceTmp  == 3   \* names mkstemp may use while they run

Envs  == 1..NumEnvs
Nets  == 1..NumNets
Nodes == 1..NumNodes
Disks == 1..NumDisks
Urls  == 1..NumUrls
Procs    == 1..NumProcs
RaceUrls == 1..NumRaceUrls

\* An environment id is <name>-<suffix>; names are the environment numbers.
NoId == <<0, 0>>
Ids  == Envs \X (1..NumSuffix)

\* ------------------------------------------------------- address blocks
\* A block is an address range <<lo, hi>>.
NoBlock == <<-1, -1>>

Overlaps(a, b) == a[1] <= b[2] /\ b[1] <= a[2]

\* The fixed-size blocks get() enumerates, in order.
Candidate(k) == <<2 * k, 2 * k + 1>>

\* `ip route` output: one record per line, holding what line.split()
\* yields: no word, the word 'default', or a destination network.
EmptyLine   == [kind |-> "empty",   net |-> NoBlock]
DefaultLine == [kind |-> "default", net |-> NoBlock]
NetLine(b)  == [kind |-> "net",     net |-> b]

RouteTables ==
    { <<>>,
      <<DefaultLine, NetLine(<<0, 0>>)>>,
      <<DefaultLine, EmptyLine, NetLine(<<2, 3>>)>>,
      <<NetLine(<<0, 3>>), DefaultLine>> }

\* ------------------------------------------------- devops.network pool
\* reserve(block): the block joins the set get() must avoid.
IpNetworksPool_reserve(res, b) == res \cup {b}

\* A candidate is free when it meets no reserved and no allocated block.
IsFree(k, res, alloc) == \A b \in res \cup alloc : ~Overlaps(Candidate(k), b)

FreeCandidates(res, alloc) == {k \in 0..(NumBlocks - 1) : IsFree(k, res, alloc)}

\* get(): the first free candidate in enumeration order; none: exhausted.
IpNetworksPool_get(res, alloc) ==
    LET free == FreeCandidates(res, alloc)
    IN  IF free = {} THEN NoBlock
        ELSE Candidate(CHOOSE k \in free : \A j \in free : k <= j)

\* put(block) raises when the block is not allocated.
IpNetworksPool_put_raises(alloc, b) == b \notin alloc

IpNetworksPool_put(alloc, b) == alloc \ {b}

\* ------------------------------------------- Controller._reserve_networks
\* Every line of `ip route` that has a first word other than 'default'
\* is reserved.
ReserveStopsAtDefault(table) ==
    LET F[j \in 0..Len(table)] ==
            IF j = 0 THEN [res |-> {}, stop |-> FALSE]
            ELSE IF F[j - 1].stop \/ table[j].kind = "default"
                 THEN [res |-> F[j - 1].res, stop |-> TRUE]
            ELSE IF table[j].kind = "empty" THEN F[j - 1]
            ELSE [res |-> IpNetworksPool_reserve(F[j - 1].res, table[j].net),
                  stop |-> FALSE]
    IN  F[Len(table)].res

_reserve_networks(table) ==
    LET F[j \in 0..Len(table)] ==
            IF j = 0 THEN {}
            ELSE IF table[j].kind = "empty" THEN F[j - 1]
            ELSE IF table[j].kind = "default" THEN F[j - 1]
            ELSE IpNetworksPool_reserve(F[j - 1], table[j].net)
    IN  F[Len(table)]

\* ------------------------------------------------------------ the state
VARIABLES
    ipRoute,      \* the host's routing table, as `ip route` prints it
    reserved,     \* networks_pool: blocks reserved at startup
    allocated,    \* networks_pool: blocks handed out and not put back
    envId,        \* environment.id (NoId: attribute absent); work_dir follows it
    built,        \* environment.built
    envDriver,    \* environment.driver is set
    ip,           \* network.ip_addresses (NoBlock: none)
    netDriver,    \* network.driver is set
    nodeDriver,   \* node.driver is set
    isopath,      \* node.cdrom / node.cdrom.isopath
    diskPath,     \* disk.path: "null", "ext" (given by the caller) or "tmp"
    bNet,         \* backend: "absent", "created" (stopped) or "started"
    bNode,        \* backend: the node exists
    bDisk,        \* backend: number of Driver.create_disk calls per disk
    dirs,         \* <home>/environments/<id> directories that exist
    config,       \* <home>/environments/<id>/config contents
    workFiles,    \* disk files that exist inside the work directories
    cacheDir,     \* <home>/cache exists
    cacheLog,     \* <home>/cache/entries
    cacheFiles,   \* <home>/cache/<name>: "none", "empty", "partial", "complete"
    tmpCount,     \* names mkstemp has used in the cache directory
    downloads,    \* completed urlretrieve calls per URL
    proc,         \* per process inside _cache_file: position and locals
    call,         \* the controller call in progress and its position
    ret,          \* how the last call ended, and the value it returned
    life,         \* history: "new", "built" (a build finished) or "destroyed"
    puts          \* history: put() calls made for the block a network holds

poolVars    == <<ipRoute, reserved, allocated>>
objVars     == <<envId, built, envDriver, ip, netDriver, nodeDriver, isopath, diskPath>>
backendVars == <<bNet, bNode, bDisk>>
fsVars      == <<dirs, config, workFiles>>
cacheVars   == <<cacheDir, cacheLog, cacheFiles, tmpCount, downloads, proc>>
histVars    == <<life, puts>>
vars        == <<poolVars, objVars, backendVars, fsVars, cacheVars, call, ret, histVars>>

Idle == [kind |-> "idle", env |-> 0, pc |-> "idle", i |-> 0, d |-> 0]

At(kind, e, pc, i, d) == [kind |-> kind, env |-> e, pc |-> pc, i |-> i, d |-> d]

NoValue  == [none |-> TRUE]
NoConfig == [none |-> TRUE]

Returned(v) == [exc |-> "none", value |-> v]
Raised(exc) == [exc |-> exc, value |-> NoValue]

\* The topology the caller describes before build.
NoCdrom      == [kind |-> "none",   v |-> 0]
LocalIso     == [kind |-> "local",  v |-> 0]
UrlIso(u)    == [kind |-> "url",    v |-> u]
CachedIso(p) == [kind |-> "cached", v |-> p]

InitialIso(e, i) ==
    IF i % 3 = 1 THEN UrlIso(((e + i) % NumUrls) + 1)
    ELSE IF i % 3 = 2 THEN LocalIso ELSE NoCdrom

InitialDiskPath(d) == IF d % 2 = 1 THEN "null" ELSE "ext"

EmptyDict == [u \in Urls |-> 0]

\* A process that is not inside _cache_file; `result` and `exc` are how
\* its last call ended.
ProcIdle(result, exc) ==
    [pc |-> "idle", url |-> 0, cache_entries |-> <<>>, cached_path |-> 0,
     result |-> result, exc |-> exc]

\* Controller.__init__: a new pool, the host's routes reserved.
InitObjects ==
    /\ ipRoute \in RouteTables
    /\ reserved = _reserve_networks(ipRoute)
    /\ allocated = {}
    /\ envId = [e \in Envs |-> NoId]
    /\ built = [e \in Envs |-> FALSE]
    /\ envDriver = [e \in Envs |-> FALSE]
    /\ ip = [e \in Envs |-> [n \in Nets |-> NoBlock]]
    /\ netDriver = [e \in Envs |-> [n \in Nets |-> FALSE]]
    /\ nodeDriver = [e \in Envs |-> [i \in Nodes |-> FALSE]]
    /\ isopath = [e \in Envs |-> [i \in Nodes |-> InitialIso(e, i)]]
    /\ diskPath = [e \in Envs |-> [i \in Nodes |-> [d \in Disks |-> InitialDiskPath(d)]]]
    /\ bNet = [e \in Envs |-> [n \in Nets |-> "absent"]]
    /\ bNode = [e \in Envs |-> [i \in Nodes |-> FALSE]]
    /\ bDisk = [e \in Envs |-> [i \in Nodes |-> [d \in Disks |-> 0]]]
    /\ dirs = {}
    /\ config = [id \in Ids |-> NoConfig]
    /\ workFiles = {}
    /\ call = Idle
    /\ ret = Returned(NoValue)
    /\ life = [e \in Envs |-> "new"]
    /\ puts = [e \in Envs |-> [n \in Nets |-> 0]]

Init ==
    /\ InitObjects
    /\ cacheDir = FALSE
    /\ cacheLog = [exists |-> FALSE, entries |-> EmptyDict]
    /\ cacheFiles = [p \in 1..MaxTmp |-> "none"]
    /\ tmpCount = 0
    /\ downloads = [u \in Urls |-> 0]
    /\ proc = [p \in Procs |-> ProcIdle(0, "none")]

\* --------------------------------------------------- Controller.__init__
\* A Controller constructed later over the same home directory and driver:
\* its pool is new; the filesystem, the backend and the caller's objects
\* are what they were.
Controller_init ==
    /\ call = Idle
    /\ reserved' = _reserve_networks(ipRoute)
    /\ allocated' = {}
    /\ UNCHANGED <<ipRoute, objVars, backendVars, fsVars, cacheVars, call, ret>>
    /\ UNCHANGED histVars

\* ------------------------------------------------ Controller._cache_file
\* The index as _cache_file reads it: the file's dict, or an empty one.
cache_entries == IF cacheLog.exists THEN cacheLog.entries ELSE EmptyDict

\* Line 181: the lookup that decides between hit and miss.
has_key_of_nothing(entries, url) == FALSE

has_key(entries, url) == entries[url] # 0

\* Line 192: the index written back after a completed download.
EntriesWithNew(entries, url, path) == [entries EXCEPT ![url] = path]

\* ------------------------------------------- Controller.build_environment
\* Lines 41-49: the id is kept or generated, work_dir is derived from it
\* and created; mkdir raises when the directory exists.
KeepOrGenerate(e, r) == IF envId[e] = NoId THEN <<e, r>> ELSE envId[e]

build_environment_dir_may_exist(e) ==
    /\ call = Idle
    /\ \E r \in 1..NumSuffix :
        LET id == KeepOrGenerate(e, r) IN
        /\ envId' = [envId EXCEPT ![e] = id]
        /\ dirs' = dirs \cup {id}
        /\ envDriver' = [envDriver EXCEPT ![e] = TRUE]
        /\ call' = At("build", e, "cache", 1, 0)
        /\ UNCHANGED ret
    /\ UNCHANGED <<poolVars, built, ip, netDriver, nodeDriver, isopath, diskPath,
                   backendVars, config, workFiles, cacheVars>>
    /\ UNCHANGED histVars

build_environment(e) ==
    /\ call = Idle
    /\ \E r \in 1..NumSuffix :
        LET id == KeepOrGenerate(e, r) IN
        /\ envId' = [envId EXCEPT ![e] = id]
        /\ IF id \in dirs
           THEN /\ ret' = Raised("OSError")
                /\ UNCHANGED <<dirs, envDriver, call>>
           ELSE /\ dirs' = dirs \cup {id}
                /\ envDriver' = [envDriver EXCEPT ![e] = TRUE]
                /\ call' = At("build", e, "cache", 1, 0)
                /\ UNCHANGED ret
    /\ UNCHANGED <<poolVars, built, ip, netDriver, nodeDriver, isopath, diskPath,
                   backendVars, config, workFiles, cacheVars>>
    /\ UNCHANGED histVars

AfterCacheNodesFirst(e, i) ==
    IF i < NumNodes THEN At("build", e, "cache", i + 1, 0)
    ELSE At("build", e, "disk", 1, 1)

AfterCache(e, i) ==
    IF i < NumNodes THEN At("build", e, "cache", i + 1, 0)
    ELSE At("build", e, "get", 1, 0)

\* Lines 51-55: a node without a cdrom, or with a local image, is passed over.
build_skip_cache ==
    /\ call.kind = "build" /\ call.pc = "cache"
    /\ isopath[call.env][call.i].kind # "url"
    /\ call' = AfterCache(call.env, call.i)
    /\ UNCHANGED <<poolVars, objVars, backendVars, fsVars, cacheVars, ret>>
    /\ UNCHANGED histVars

\* Lines 57, 169-183: the URL is in the index; its path is returned.
build_cache_hit ==
    LET e == call.env
        i == call.i
        url == isopath[e][i].v
    IN  /\ call.kind = "build" /\ call.pc = "cache"
        /\ isopath[e][i].kind = "url"
        /\ has_key(cache_entries, url)
        /\ cacheDir' = TRUE
        /\ isopath' = [isopath EXCEPT ![e][i] = CachedIso(cache_entries[url])]
        /\ call' = AfterCache(e, i)
        /\ UNCHANGED <<poolVars, envId, built, envDriver, ip, netDriver, nodeDriver,
                       diskPath, backendVars, fsVars, cacheLog, cacheFiles, tmpCount,
                       downloads, proc, ret>>
        /\ UNCHANGED histVars

\* Lines 57, 169-199: a miss; mkstemp makes the file, urlretrieve fills it,
\* and only then is the index written back.
build_cache_miss ==
    LET e == call.env
        i == call.i
        url == isopath[e][i].v
        cached_path == tmpCount + 1
    IN  /\ call.kind = "build" /\ call.pc = "cache"
        /\ isopath[e][i].kind = "url"
        /\ ~has_key(cache_entries, url)
        /\ tmpCount < MaxTmp
        /\ cacheDir' = TRUE
        /\ tmpCount' = cached_path
        /\ cacheFiles' = [cacheFiles EXCEPT ![cached_path] = "complete"]
        /\ downloads' = [downloads EXCEPT ![url] = @ + 1]
        /\ cacheLog' = [exists |-> TRUE,
                        entries |-> EntriesWithNew(cache_entries, url, cached_path)]
        /\ isopath' = [isopath EXCEPT ![e][i] = CachedIso(cached_path)]
        /\ call' = AfterCache(e, i)
        /\ UNCHANGED <<poolVars, envId, built, envDriver, ip, netDriver, nodeDriver,
                       diskPath, backendVars, fsVars, proc, ret>>
        /\ UNCHANGED histVars

\* Lines 187-190: urlretrieve raises; the file mkstemp made stays, the
\* index is not written.
build_cache_download_fails_recorded ==
    LET e == call.env
        i == call.i
        url == isopath[e][i].v
        cached_path == tmpCount + 1
    IN  /\ call.kind = "build" /\ call.pc = "cache"
        /\ isopath[e][i].kind = "url"
        /\ ~has_key(cache_entries, url)
        /\ tmpCount < MaxTmp
        /\ cacheDir' = TRUE
        /\ tmpCount' = cached_path
        /\ cacheFiles' = [cacheFiles EXCEPT ![cached_path] = "partial"]
        /\ cacheLog' = [exists |-> TRUE,
                        entries |-> EntriesWithNew(cache_entries, url, cached_path)]
        /\ call' = Idle
        /\ ret' = Raised("IOError")
        /\ UNCHANGED <<poolVars, objVars, backendVars, fsVars, downloads, proc, histVars>>

build_cache_download_fails ==
    LET e == call.env
        i == call.i
        url == isopath[e][i].v
        cached_path == tmpCount + 1
    IN  /\ call.kind = "build" /\ call.pc = "cache"
        /\ isopath[e][i].kind = "url"
        /\ ~has_key(cache_entries, url)
        /\ tmpCount < MaxTmp
        /\ cacheDir' = TRUE
        /\ tmpCount' = cached_path
        /\ cacheFiles' = [cacheFiles EXCEPT ![cached_path] = "partial"]
        /\ call' = Idle
        /\ ret' = Raised("IOError")
        /\ UNCHANGED <<poolVars, objVars, backendVars, fsVars, cacheLog, downloads, proc>>
        /\ UNCHANGED histVars

\* Line 62: networks_pool.get(); it raises when no block is free.
build_get ==
    LET e == call.env
        n == call.i
        block == IpNetworksPool_get(reserved, allocated)
    IN  /\ call.kind = "build" /\ call.pc = "get"
        /\ IF block = NoBlock
           THEN /\ call' = Idle
                /\ ret' = Raised("PoolExhausted")
                /\ UNCHANGED <<allocated, ip>>
           ELSE /\ allocated' = allocated \cup {block}
                /\ ip' = [ip EXCEPT ![e][n] = block]
                /\ call' = At("build", e, "create_network", n, 0)
                /\ UNCHANGED ret
        /\ UNCHANGED <<ipRoute, reserved, envId, built, envDriver, netDriver, nodeDriver,
                       isopath, diskPath, backendVars, fsVars, cacheVars>>
        /\ puts' = IF block = NoBlock THEN puts ELSE [puts EXCEPT ![e][n] = 0]
        /\ UNCHANGED life

\* Lines 63-64: Driver.create_network, then the network gets its driver.
build_create_network ==
    LET e == call.env
        n == call.i
    IN  /\ call.kind = "build" /\ call.pc = "create_network"
        /\ bNet' = [bNet EXCEPT ![e][n] = "created"]
        /\ netDriver' = [netDriver EXCEPT ![e][n] = TRUE]
        /\ call' = At("build", e, "start", n, 0)
        /\ UNCHANGED <<poolVars, envId, built, envDriver, ip, nodeDriver, isopath,
                       diskPath, bNode, bDisk, fsVars, cacheVars, ret>>
        /\ UNCHANGED histVars

\* Line 65: network.start().
build_network_start_marks_built ==
    LET e == call.env
        n == call.i
    IN  /\ call.kind = "build" /\ call.pc = "start"
        /\ bNet' = [bNet EXCEPT ![e][n] = "started"]
        /\ built' = [built EXCEPT ![e] = TRUE]
        /\ call' = IF n < NumNets THEN At("build", e, "get", n + 1, 0)
                   ELSE At("build", e, "disk", 1, 1)
        /\ UNCHANGED <<poolVars, envId, envDriver, ip, netDriver, nodeDriver, isopath,
                       diskPath, bNode, bDisk, fsVars, cacheVars, ret, histVars>>

build_network_start ==
    LET e == call.env
        n == call.i
    IN  /\ call.kind = "build" /\ call.pc = "start"
        /\ bNet' = [bNet EXCEPT ![e][n] = "started"]
        /\ call' = IF n < NumNets THEN At("build", e, "get", n + 1, 0)
                   ELSE At("build", e, "disk", 1, 1)
        /\ UNCHANGED <<poolVars, objVars, bNode, bDisk, fsVars, cacheVars, ret>>
        /\ UNCHANGED histVars

AfterDisk(e, i, d) ==
    IF d < NumDisks THEN At("build", e, "disk", i, d + 1)
    ELSE At("build", e, "create_node", i, 0)

\* Line 156: the disks _build_node materializes.
NeedsFileAlways(path) == TRUE

NeedsFile(path) == path = "null"

\* Lines 156-164: a disk without a path gets a file in work_dir and is
\* handed to Driver.create_disk; a disk that has a path is passed over.
build_disk_creates_every_disk ==
    LET e == call.env
        i == call.i
        d == call.d
    IN  /\ call.kind = "build" /\ call.pc = "disk"
        /\ IF NeedsFile(diskPath[e][i][d])
           THEN /\ diskPath' = [diskPath EXCEPT ![e][i][d] = "tmp"]
                /\ workFiles' = workFiles \cup {<<e, i, d>>}
           ELSE UNCHANGED <<diskPath, workFiles>>
        /\ bDisk' = [bDisk EXCEPT ![e][i][d] = @ + 1]
        /\ call' = AfterDisk(e, i, d)
        /\ UNCHANGED <<poolVars, envId, built, envDriver, ip, netDriver, nodeDriver,
                       isopath, bNet, bNode, dirs, config, cacheVars, ret>>
        /\ UNCHANGED histVars

build_disk ==
    LET e == call.env
        i == call.i
        d == call.d
    IN  /\ call.kind = "build" /\ call.pc = "disk"
        /\ IF NeedsFile(diskPath[e][i][d])
           THEN /\ diskPath' = [diskPath EXCEPT ![e][i][d] = "tmp"]
                /\ workFiles' = workFiles \cup {<<e, i, d>>}
                /\ bDisk' = [bDisk EXCEPT ![e][i][d] = @ + 1]
           ELSE UNCHANGED <<diskPath, workFiles, bDisk>>
        /\ call' = AfterDisk(e, i, d)
        /\ UNCHANGED <<poolVars, envId, built, envDriver, ip, netDriver, nodeDriver,
                       isopath, bNet, bNode, dirs, config, cacheVars, ret>>
        /\ UNCHANGED histVars

\* Lines 158-164: the file is made and Driver.create_disk raises.
build_create_disk_fails ==
    LET e == call.env
        i == call.i
        d == call.d
    IN  /\ call.kind = "build" /\ call.pc = "disk"
        /\ NeedsFile(diskPath[e][i][d])
        /\ diskPath' = [diskPath EXCEPT ![e][i][d] = "tmp"]
        /\ workFiles' = workFiles \cup {<<e, i, d>>}
        /\ call' = Idle
        /\ ret' = Raised("DriverError")
        /\ UNCHANGED <<poolVars, envId, built, envDriver, ip, netDriver, nodeDriver,
                       isopath, backendVars, dirs, config, cacheVars>>
        /\ UNCHANGED histVars

\* Lines 167, 71: Driver.create_node, then the node gets its driver.
build_create_node ==
    LET e == call.env
        i == call.i
    IN  /\ call.kind = "build" /\ call.pc = "create_node"
        /\ bNode' = [bNode EXCEPT ![e][i] = TRUE]
        /\ nodeDriver' = [nodeDriver EXCEPT ![e][i] = TRUE]
        /\ call' = IF i < NumNodes THEN At("build", e, "disk", i + 1, 1)
                   ELSE At("build", e, "finish", 0, 0)
        /\ UNCHANGED <<poolVars, envId, built, envDriver, ip, netDriver, isopath,
                       diskPath, bNet, bDisk, fsVars, cacheVars, ret>>
        /\ UNCHANGED histVars

\* A Driver call of build_environment (create_network, start, create_node)
\* raises: the call ends there and nothing is undone.
build_driver_fails_rolls_back ==
    /\ call.kind = "build"
    /\ call.pc \in {"create_network", "start", "create_node"}
    /\ call' = Idle
    /\ ret' = Raised("DriverError")
    /\ allocated' = allocated \ {ip[call.env][n] : n \in Nets}
    /\ dirs' = dirs \ {envId[call.env]}
    /\ UNCHANGED <<ipRoute, reserved, objVars, backendVars, config, workFiles, cacheVars>>
    /\ UNCHANGED histVars

build_driver_fails ==
    /\ call.kind = "build"
    /\ call.pc \in {"create_network", "start", "create_node"}
    /\ call' = Idle
    /\ ret' = Raised("DriverError")
    /\ UNCHANGED <<poolVars, objVars, backendVars, fsVars, cacheVars>>
    /\ UNCHANGED histVars

\* Line 73: every step has returned; the flag is set last.
build_finish ==
    LET e == call.env
    IN  /\ call.kind = "build" /\ call.pc = "finish"
        /\ built' = [built EXCEPT ![e] = TRUE]
        /\ call' = Idle
        /\ ret' = Returned(NoValue)
        /\ UNCHANGED <<poolVars, envId, envDriver, ip, netDriver, nodeDriver, isopath,
                       diskPath, backendVars, fsVars, cacheVars>>
        /\ life' = [life EXCEPT ![e] = "built"]
        /\ UNCHANGED puts

\* ----------------------------------------- Controller.destroy_environment
\* Line 45: environment.work_dir, as the directory's name under environments/.
WorkDirOf(e) == envId[e]

\* Lines 76-79: the call starts with the first node.
destroy_environment_networks_first(e) ==
    /\ call = Idle
    /\ call' = At("destroy", e, "network_stop", 1, 0)
    /\ UNCHANGED <<poolVars, objVars, backendVars, fsVars, cacheVars, ret>>
    /\ UNCHANGED histVars

destroy_environment(e) ==
    /\ call = Idle
    /\ call' = At("destroy", e, "node_stop", 1, 0)
    /\ UNCHANGED <<poolVars, objVars, backendVars, fsVars, cacheVars, ret>>
    /\ UNCHANGED histVars

\* Line 82: node.stop().
destroy_node_stop ==
    /\ call.kind = "destroy" /\ call.pc = "node_stop"
    /\ call' = At("destroy", call.env, "delete_node", call.i, 0)
    /\ UNCHANGED <<poolVars, objVars, backendVars, fsVars, cacheVars, ret>>
    /\ UNCHANGED histVars

\* `del x.driver` raises AttributeError when the attribute is not set.
del_raises(isSet) == ~isSet

\* Lines 83-84: Driver.delete_node, then `del node.driver`.
destroy_delete_node ==
    LET e == call.env
        i == call.i
    IN  /\ call.kind = "destroy" /\ call.pc = "delete_node"
        /\ bNode' = [bNode EXCEPT ![e][i] = FALSE]
        /\ IF del_raises(nodeDriver[e][i])
           THEN /\ call' = Idle
                /\ ret' = Raised("AttributeError")
                /\ UNCHANGED nodeDriver
           ELSE /\ nodeDriver' = [nodeDriver EXCEPT ![e][i] = FALSE]
                /\ call' = IF i < NumNodes THEN At("destroy", e, "node_stop", i + 1, 0)
                           ELSE At("destroy", e, "network_stop", 1, 0)
                /\ UNCHANGED ret
        /\ UNCHANGED <<poolVars, envId, built, envDriver, ip, netDriver, isopath,
                       diskPath, bNet, bDisk, fsVars, cacheVars>>
        /\ UNCHANGED histVars

\* Line 89: network.stop().
destroy_network_stop ==
    LET e == call.env
        n == call.i
    IN  /\ call.kind = "destroy" /\ call.pc = "network_stop"
        /\ bNet' = [bNet EXCEPT ![e][n] = IF @ = "started" THEN "created" ELSE @]
        /\ call' = At("destroy", e, "delete_network", n, 0)
        /\ UNCHANGED <<poolVars, objVars, bNode, bDisk, fsVars, cacheVars, ret>>
        /\ UNCHANGED histVars

\* Lines 90-91: Driver.delete_network, then `del network.driver`.
destroy_delete_network ==
    LET e == call.env
        n == call.i
    IN  /\ call.kind = "destroy" /\ call.pc = "delete_network"
        /\ bNet' = [bNet EXCEPT ![e][n] = "absent"]
        /\ IF del_raises(netDriver[e][n])
           THEN /\ call' = Idle
                /\ ret' = Raised("AttributeError")
                /\ UNCHANGED netDriver
           ELSE /\ netDriver' = [netDriver EXCEPT ![e][n] = FALSE]
                /\ call' = At("destroy", e, "put", n, 0)
                /\ UNCHANGED ret
        /\ UNCHANGED <<poolVars, envId, built, envDriver, ip, nodeDriver, isopath,
                       diskPath, bNode, bDisk, fsVars, cacheVars>>
        /\ UNCHANGED histVars

\* Lines 94-97: networks_pool.put(network.ip_addresses); whatever it
\* raises is discarded.
destroy_put_propagates ==
    LET e == call.env
        n == call.i
    IN  /\ call.kind = "destroy" /\ call.pc = "put"
        /\ IF IpNetworksPool_put_raises(allocated, ip[e][n])
           THEN /\ call' = Idle
                /\ ret' = Raised("PoolError")
                /\ UNCHANGED allocated
           ELSE /\ allocated' = IpNetworksPool_put(allocated, ip[e][n])
                /\ call' = IF n < NumNets THEN At("destroy", e, "network_stop", n + 1, 0)
                           ELSE At("destroy", e, "finish", 0, 0)
                /\ UNCHANGED ret
        /\ puts' = [puts EXCEPT ![e][n] = @ + 1]
        /\ UNCHANGED <<ipRoute, reserved, objVars, backendVars, fsVars, cacheVars, life>>

destroy_put_not_called ==
    LET e == call.env
        n == call.i
    IN  /\ call.kind = "destroy" /\ call.pc = "put"
        /\ call' = IF n < NumNets THEN At("destroy", e, "network_stop", n + 1, 0)
                   ELSE At("destroy", e, "finish", 0, 0)
        /\ puts' = [puts EXCEPT ![e][n] = @ + 1]
        /\ UNCHANGED <<poolVars, objVars, backendVars, fsVars, cacheVars, ret, life>>

destroy_put ==
    LET e == call.env
        n == call.i
    IN  /\ call.kind = "destroy" /\ call.pc = "put"
        /\ allocated' = IF IpNetworksPool_put_raises(allocated, ip[e][n])
                        THEN allocated
                        ELSE IpNetworksPool_put(allocated, ip[e][n])
        /\ call' = IF n < NumNets THEN At("destroy", e, "network_stop", n + 1, 0)
                   ELSE At("destroy", e, "finish", 0, 0)
        /\ UNCHANGED <<ipRoute, reserved, objVars, backendVars, fsVars, cacheVars, ret>>
        /\ puts' = [puts EXCEPT ![e][n] = @ + 1]
        /\ UNCHANGED life

\* A Driver call of destroy_environment (stop, delete_node, delete_network)
\* raises: the call ends there.
destroy_driver_fails ==
    /\ call.kind = "destroy"
    /\ call.pc \in {"node_stop", "delete_node", "network_stop", "delete_network"}
    /\ call' = Idle
    /\ ret' = Raised("DriverError")
    /\ UNCHANGED <<poolVars, objVars, backendVars, fsVars, cacheVars>>
    /\ UNCHANGED histVars

\* Lines 99-103: `del environment.driver`, then shutil.rmtree(work_dir),
\* which takes the config file and the disk files with it.
destroy_finish ==
    LET e == call.env
    IN  /\ call.kind = "destroy" /\ call.pc = "finish"
        /\ call' = Idle
        /\ IF del_raises(envDriver[e])
           THEN /\ ret' = Raised("AttributeError")
                /\ UNCHANGED <<envDriver, fsVars>>
           ELSE /\ envDriver' = [envDriver EXCEPT ![e] = FALSE]
                /\ IF envId[e] = NoId
                   THEN /\ ret' = Raised("AttributeError")
                        /\ UNCHANGED fsVars
                   ELSE IF envId[e] \notin dirs
                   THEN /\ ret' = Raised("OSError")
                        /\ UNCHANGED fsVars
                   ELSE /\ dirs' = dirs \ {envId[e]}
                        /\ config' = [config EXCEPT ![envId[e]] = NoConfig]
                        /\ workFiles' = {f \in workFiles : f[1] # e}
                        /\ ret' = Returned(NoValue)
        /\ UNCHANGED <<poolVars, envId, built, ip, netDriver, nodeDriver, isopath,
                       diskPath, backendVars, cacheVars>>
        /\ life' = IF ret'.exc = "none" THEN [life EXCEPT ![e] = "destroyed"] ELSE life
        /\ UNCHANGED puts

\* Line 103: shutil.rmtree raises for a directory that exists; the
\* environment's driver reference is gone by then.
destroy_rmtree_fails ==
    LET e == call.env
    IN  /\ call.kind = "destroy" /\ call.pc = "finish"
        /\ ~del_raises(envDriver[e])
        /\ WorkDirOf(e) \in dirs
        /\ envDriver' = [envDriver EXCEPT ![e] = FALSE]
        /\ call' = Idle
        /\ ret' = Raised("OSError")
        /\ UNCHANGED <<poolVars, envId, built, ip, netDriver, nodeDriver, isopath,
                       diskPath, backendVars, fsVars, cacheVars>>
        /\ UNCHANGED histVars

\* --------------------------------------------------------------- my_yaml
\* dump(environment): every persisted field, no driver reference.
my_yaml_dump(e) ==
    [id       |-> envId[e],
     name     |-> e,
     built    |-> built[e],
     networks |-> [n \in Nets |-> [ip_addresses |-> ip[e][n]]],
     nodes    |-> [i \in Nodes |-> [cdrom |-> isopath[e][i],
                                     disks |-> diskPath[e][i]]]]

\* load(data): the environment object, with no driver attached anywhere.
my_yaml_load(data) ==
    [id       |-> data.id,
     name     |-> data.name,
     built    |-> data.built,
     driver   |-> FALSE,
     networks |-> [n \in Nets |-> [ip_addresses |-> data.networks[n].ip_addresses,
                                    driver |-> FALSE]],
     nodes    |-> [i \in Nodes |-> [cdrom |-> data.nodes[i].cdrom,
                                     disks |-> data.nodes[i].disks,
                                     driver |-> FALSE]]]

\* ------------------------------------------- Controller.save_environment
\* Line 122: the check that stands before the write.
NotBuiltNever(e) == FALSE

NotBuilt(e) == ~built[e]

\* Lines 120-125: dump, refuse an unbuilt environment, write the file.
save_environment(e) ==
    /\ call = Idle
    /\ IF NotBuilt(e)
       THEN /\ ret' = Raised("DevopsError not built")
            /\ UNCHANGED config
       ELSE IF envId[e] \notin dirs
       THEN /\ ret' = Raised("IOError")
            /\ UNCHANGED config
       ELSE /\ config' = [config EXCEPT ![envId[e]] = my_yaml_dump(e)]
            /\ ret' = Returned(NoValue)
    /\ UNCHANGED <<poolVars, objVars, backendVars, dirs, workFiles, cacheVars, call>>
    /\ UNCHANGED histVars

\* ------------------------------------------- Controller.load_environment
\* Line 110: os.path.exists(env_config_file).
config_exists(id) == config[id] # NoConfig

\* Lines 108-109: the file load_environment reads.
env_config_file_of_any(id) == CHOOSE j \in Ids : config_exists(j) /\ \A k \in Ids : config_exists(k) => j[1] <= k[1] /\ (j[1] = k[1] => j[2] <= k[2])

env_config_file(id) == id

\* Lines 107-118.
load_environment_test_negated(id) ==
    /\ call = Idle
    /\ ret' = IF config_exists(id)
              THEN Raised("DevopsError not found")
              ELSE Raised("IOError")
    /\ UNCHANGED <<poolVars, objVars, backendVars, fsVars, cacheVars, call, histVars>>

load_environment(id) ==
    /\ call = Idle
    /\ ret' = IF ~config_exists(id)
              THEN Raised("DevopsError not found")
              ELSE Returned(my_yaml_load(config[env_config_file(id)]))
    /\ UNCHANGED <<poolVars, objVars, backendVars, fsVars, cacheVars, call>>
    /\ UNCHANGED histVars

\* ---------------------------------------- Controller.saved_environments
\* Line 131: the test a directory under environments/ must pass.
has_config_always(id) == TRUE

has_config(id) == config_exists(id)

\* Lines 127-133: the names of the directories that hold a config file.
saved_environments ==
    /\ call = Idle
    /\ ret' = Returned([ids |-> {id \in dirs : has_config(id)}])
    /\ UNCHANGED <<poolVars, objVars, backendVars, fsVars, cacheVars, call>>
    /\ UNCHANGED histVars

\* ----------------------------------------------------------------- Next
Next ==
    \/ Controller_init
    \/ \E e \in Envs : build_environment(e)
    \/ build_skip_cache
    \/ build_cache_hit
    \/ build_cache_miss
    \/ build_cache_download_fails
    \/ build_get
    \/ build_create_network
    \/ build_network_start
    \/ build_disk
    \/ build_create_disk_fails
    \/ build_create_node
    \/ build_driver_fails
    \/ build_finish
    \/ \E e \in Envs : destroy_environment(e)
    \/ destroy_node_stop
    \/ destroy_delete_node
    \/ destroy_network_stop
    \/ destroy_delete_network
    \/ destroy_put
    \/ destroy_driver_fails
    \/ destroy_finish
    \/ destroy_rmtree_fails
    \/ \E e \in Envs : save_environment(e)
    \/ \E id \in Ids : load_environment(id)
    \/ saved_environments

Spec == Init /\ [][Next]_vars

\* ------------------------- Controller._cache_file, run by several processes
\* Each process runs _cache_file statement by statement over the one cache
\* directory; nothing in lines 169-199 takes a lock.
RaceEmptyDict == [u \in RaceUrls |-> 0]

\* Lines 174-179, as a process reads them.
race_cache_entries == IF cacheLog.exists THEN cacheLog.entries ELSE RaceEmptyDict

InitRace ==
    /\ InitObjects
    /\ cacheDir = FALSE
    /\ cacheLog = [exists |-> FALSE, entries |-> RaceEmptyDict]
    /\ cacheFiles = [f \in 1..MaxRaceTmp |-> "none"]
    /\ tmpCount = 0
    /\ downloads = [u \in RaceUrls |-> 0]
    /\ proc = [p \in Procs |-> ProcIdle(0, "none")]

raceFrame == <<poolVars, objVars, backendVars, fsVars, call, ret, histVars>>

\* Line 169: a process enters _cache_file(url).
race_cache_file(p, url) ==
    /\ proc[p].pc = "idle"
    /\ proc' = [proc EXCEPT ![p] = [pc |-> "exists", url |-> url,
                                    cache_entries |-> <<>>, cached_path |-> 0,
                                    result |-> 0, exc |-> "none"]]
    /\ UNCHANGED <<raceFrame, cacheDir, cacheLog, cacheFiles, tmpCount, downloads>>

\* Line 171: os.path.exists(cache_dir).
race_exists(p) ==
    /\ proc[p].pc = "exists"
    /\ proc' = [proc EXCEPT ![p].pc = IF cacheDir THEN "read" ELSE "makedirs"]
    /\ UNCHANGED <<raceFrame, cacheDir, cacheLog, cacheFiles, tmpCount, downloads>>

\* Line 172: os.makedirs(cache_dir); it raises when another process made
\* the directory since line 171.
race_makedirs(p) ==
    /\ proc[p].pc = "makedirs"
    /\ IF cacheDir
       THEN /\ proc' = [proc EXCEPT ![p] = ProcIdle(0, "OSError")]
            /\ UNCHANGED cacheDir
       ELSE /\ cacheDir' = TRUE
            /\ proc' = [proc EXCEPT ![p].pc = "read"]
    /\ UNCHANGED <<raceFrame, cacheLog, cacheFiles, tmpCount, downloads>>

\* Lines 174-179: the index is read into the local cache_entries.
race_read(p) ==
    /\ proc[p].pc = "read"
    /\ proc' = [proc EXCEPT ![p].pc = "has_key",
                            ![p].cache_entries = race_cache_entries]
    /\ UNCHANGED <<raceFrame, cacheDir, cacheLog, cacheFiles, tmpCount, downloads>>

\* Lines 181-183: a hit returns the path the local dict holds.
race_hit(p) ==
    /\ proc[p].pc = "has_key"
    /\ has_key(proc[p].cache_entries, proc[p].url)
    /\ proc' = [proc EXCEPT ![p] = ProcIdle(proc[p].cache_entries[proc[p].url], "none")]
    /\ UNCHANGED <<raceFrame, cacheDir, cacheLog, cacheFiles, tmpCount, downloads>>

\* Lines 187-192: a miss; mkstemp, a completed urlretrieve, and the entry
\* added to the local dict.
race_download(p) ==
    LET cached_path == tmpCount + 1
    IN  /\ proc[p].pc = "has_key"
        /\ ~has_key(proc[p].cache_entries, proc[p].url)
        /\ tmpCount < MaxRaceTmp
        /\ tmpCount' = cached_path
        /\ cacheFiles' = [cacheFiles EXCEPT ![cached_path] = "complete"]
        /\ downloads' = [downloads EXCEPT ![proc[p].url] = @ + 1]
        /\ proc' = [proc EXCEPT ![p].pc = "write",
                                ![p].cached_path = cached_path,
                                ![p].cache_entries =
                                    EntriesWithNew(@, proc[p].url, cached_path)]
        /\ UNCHANGED <<raceFrame, cacheDir, cacheLog>>

\* Lines 187-190: urlretrieve raises.
race_download_fails(p) ==
    LET cached_path == tmpCount + 1
    IN  /\ proc[p].pc = "has_key"
        /\ ~has_key(proc[p].cache_entries, proc[p].url)
        /\ tmpCount < MaxRaceTmp
        /\ tmpCount' = cached_path
        /\ cacheFiles' = [cacheFiles EXCEPT ![cached_path] = "partial"]
        /\ proc' = [proc EXCEPT ![p] = ProcIdle(0, "IOError")]
        /\ UNCHANGED <<raceFrame, cacheDir, cacheLog, downloads>>

\* Lines 194-199: the local dict replaces the index file; the path is
\* returned.
race_write_merges(p) ==
    /\ proc[p].pc = "write"
    /\ cacheLog' = [exists |-> TRUE,
                    entries |-> EntriesWithNew(race_cache_entries, proc[p].url,
                                               proc[p].cached_path)]
    /\ proc' = [proc EXCEPT ![p] = ProcIdle(proc[p].cached_path, "none")]
    /\ UNCHANGED <<raceFrame, cacheDir, cacheFiles, tmpCount, downloads>>

race_write(p) ==
    /\ proc[p].pc = "write"
    /\ cacheLog' = [exists |-> TRUE, entries |-> proc[p].cache_entries]
    /\ proc' = [proc EXCEPT ![p] = ProcIdle(proc[p].cached_path, "none")]
    /\ UNCHANGED <<raceFrame, cacheDir, cacheFiles, tmpCount, downloads>>

NextRace ==
    \/ \E p \in Procs, url \in RaceUrls : race_cache_file(p, url)
    \/ \E p \in Procs : race_exists(p)
    \/ \E p \in Procs : race_makedirs(p)
    \/ \E p \in Procs : race_read(p)
    \/ \E p \in Procs : race_hit(p)
    \/ \E p \in Procs : race_download(p)
    \/ \E p \in Procs : race_download_fails(p)
    \/ \E p \in Procs : race_write(p)

SpecRace == InitRace /\ [][NextRace]_vars

\* --------------------------------------------------------------- claims
\* The destinations of the host's non-default routes.
HostRoutes == {ipRoute[j].net : j \in {x \in 1..Len(ipRoute) : ipRoute[x].kind = "net"}}

WorkDirExists(e) == envId[e] # NoId /\ envId[e] \in dirs

NetworkLive(e, n) == bNet[e][n] # "absent"

\* C1: every block get() returns to build_environment is disjoint from
\* every block reserved at Controller startup (each non-default host route)
\* and from every block got earlier and not yet put back.
GetReturnsDisjointBlock ==
    [][\A e \in Envs, n \in Nets :
          (call = At("build", e, "get", n, 0) /\ call'.pc = "create_network")
          => /\ ip'[e][n] # NoBlock
             /\ \A r \in HostRoutes \cup reserved : ~Overlaps(ip'[e][n], r)
             /\ \A a \in allocated : ~Overlaps(ip'[e][n], a)]_vars

\* A get has returned a block while a route is reserved and another block
\* is still out.
GetWitness ==
    /\ call.kind = "build" /\ call.pc = "create_network"
    /\ HostRoutes # {}
    /\ Cardinality(allocated) >= 2

\* C2: `built` becomes true only in the step that ends a build in which
\* every network got its block, was created and started and every node
\* was created; no step of a failing build sets it.
BuiltOnlyAfterEverything ==
    [][\A e \in Envs :
          (~built[e] /\ built'[e])
          => /\ call.kind = "build" /\ call.env = e
             /\ ret'.exc = "none"
             /\ \A n \in Nets : /\ ip[e][n] # NoBlock
                                /\ ip[e][n] \in allocated
                                /\ bNet[e][n] = "started"
             /\ \A i \in Nodes : bNode[e][i]]_vars

\* One environment is built, and a build of another has failed.
BuiltWitness ==
    \E e1, e2 \in Envs :
        /\ built[e1]
        /\ ~built[e2] /\ envId[e2] # NoId
        /\ call = Idle /\ ret.exc = "DriverError"

\* C3 (as claimed): between calls, an environment's work_dir exists
\* exactly when the environment has been built and not yet destroyed.
WorkDirIffBuilt ==
    call = Idle => \A e \in Envs : WorkDirExists(e) <=> life[e] = "built"

\* The block a network got from the pool and has not been put back.
BlockHeld(e, n) == ip[e][n] # NoBlock /\ puts[e][n] = 0

\* destroy_environment can reach the put of network n: no `del` before it
\* is bound to raise.
CanBeReturned(e, n) ==
    /\ \A i \in Nodes : nodeDriver[e][i]
    /\ \A m \in 1..n : netDriver[e][m]

\* C4 (as claimed): a live network has a block; no block is put twice; and
\* between calls, also after a destroy that failed part-way, the block of
\* every live network of a built environment can still be returned by
\* calling destroy again: none is left un-returned.
BlockReturnedExactlyOnce ==
    \A e \in Envs, n \in Nets :
        /\ NetworkLive(e, n) => ip[e][n] # NoBlock
        /\ puts[e][n] <= 1
        /\ (call = Idle /\ life[e] = "built" /\ NetworkLive(e, n) /\ BlockHeld(e, n))
           => CanBeReturned(e, n)

\* C5 (as claimed): between calls, the pool's allocated set is exactly the
\* set of blocks of the live networks.
AllocatedIsLiveBlocks ==
    call = Idle
    => allocated = {ip[e][n] : <<e, n>> \in {x \in Envs \X Nets : NetworkLive(x[1], x[2])}}

\* C6: when a destroy of a built environment returns without error, the
\* work directory is gone and none of the environment's blocks is
\* allocated: each is free for get() to issue again.
DestroyRestoresPool ==
    [][\A e \in Envs :
          (call = At("destroy", e, "finish", 0, 0) /\ life[e] = "built" /\ ret'.exc = "none")
          => /\ ~WorkDirExists(e)'
             /\ \A n \in Nets :
                  /\ ip[e][n] \notin allocated'
                  /\ \A b \in reserved' \cup allocated' : ~Overlaps(ip[e][n], b)]_vars

\* A built environment has been destroyed and its first block has been
\* issued again, to a network of another environment.
DestroyWitness ==
    \E e1, e2 \in Envs :
        /\ e1 # e2
        /\ life[e1] = "destroyed" /\ ~WorkDirExists(e1)
        /\ ip[e1][1] # NoBlock
        /\ ip[e2][1] = ip[e1][1] /\ ip[e2][1] \in allocated

\* The URL a node's image was described with.
UrlOf(e, i) == InitialIso(e, i).v

\* C7: a URL is downloaded at most once, it is in the index exactly when
\* its download has completed, and every path a resolve has returned for
\* it is the path the index holds: no entry is removed or remapped.
UrlDownloadedOnce ==
    /\ \A u \in Urls : /\ downloads[u] <= 1
                       /\ downloads[u] = 1 <=> (cacheLog.exists /\ cacheLog.entries[u] # 0)
    /\ \A e \in Envs, i \in Nodes :
          isopath[e][i].kind = "cached"
          => /\ cacheLog.exists
             /\ isopath[e][i].v = cacheLog.entries[UrlOf(e, i)]

\* Two nodes have resolved the same URL: the first in a build that left a
\* live network, the second from the index, in a build run by a Controller
\* constructed since (its pool is empty).
ResolveTwiceWitness ==
    \E e1, e2 \in Envs :
        /\ e1 # e2
        /\ UrlOf(e1, 1) = UrlOf(e2, 1)
        /\ isopath[e1][1].kind = "cached" /\ NetworkLive(e1, 1)
        /\ call = At("build", e2, "get", 1, 0) /\ allocated = {}
        /\ isopath[e2][1] = isopath[e1][1]
        /\ downloads[UrlOf(e1, 1)] = 1

\* C8: every URL in the persisted index maps to a file whose download
\* completed; a file left by a failed download is in no entry.
IndexHoldsCompleteDownloads ==
    /\ \A u \in Urls :
          (cacheLog.exists /\ cacheLog.entries[u] # 0)
          => cacheFiles[cacheLog.entries[u]] = "complete"
    /\ \A p \in 1..MaxTmp :
          cacheFiles[p] = "partial" => \A u \in Urls : cacheLog.entries[u] # p
    /\ ~cacheLog.exists => cacheLog.entries = EmptyDict

\* A download has failed and a later one has been recorded.
FailedDownloadWitness ==
    /\ \E p \in 1..MaxTmp : cacheFiles[p] = "partial"
    /\ \E u \in Urls : cacheLog.exists /\ cacheLog.entries[u] # 0

\* C9: save_environment on an environment whose `built` is false raises
\* the not-built error and writes nothing; a config file is written only
\* for a built environment.
SaveNeedsBuilt ==
    [][/\ \A e \in Envs :
            (save_environment(e) /\ ~built[e])
            => /\ ret'.exc = "DevopsError not built"
               /\ UNCHANGED <<fsVars, cacheVars>>
       /\ \A id \in Ids :
            (config'[id] # config[id] /\ config'[id] # NoConfig)
            => \E e \in Envs : envId[e] = id /\ built[e]]_vars

\* A save was refused while another environment's config is on disk.
SaveRefusedWitness ==
    /\ ret.exc = "DevopsError not built"
    /\ \E id \in Ids : config[id] # NoConfig

\* C10: load_environment(id) raises the not-found error exactly when
\* environments/<id>/config does not exist; otherwise it returns the
\* deserialized environment with no driver attached to it, its networks or
\* its nodes; either way nothing but the return value changes.
LoadFindsOrFails ==
    [][\A id \in Ids :
          load_environment(id)
          => /\ ret'.exc = "DevopsError not found" <=> config[id] = NoConfig
             /\ config[id] # NoConfig
                => /\ ret'.exc = "none"
                   /\ ret'.value.id = id
                   /\ ret'.value.built = config[id].built
                   /\ ~ret'.value.driver
                   /\ \A n \in Nets : ~ret'.value.networks[n].driver
                   /\ \A i \in Nodes : ~ret'.value.nodes[i].driver
             /\ UNCHANGED <<poolVars, objVars, backendVars, fsVars, cacheVars>>]_vars

\* A load has returned an environment.
LoadWitness ==
    /\ ret.exc = "none" /\ "built" \in DOMAIN ret.value
    /\ ret.value.built /\ ~ret.value.driver

\* C11: saved_environments returns exactly the ids whose work_dir/config
\* file exists at the time of the call, whatever the environments' built
\* flags are, and changes nothing else.
SavedEnvironmentsListsConfigs ==
    [][saved_environments
       => /\ ret'.exc = "none"
          /\ ret'.value.ids = {id \in Ids : config[id] # NoConfig}
          /\ UNCHANGED <<poolVars, objVars, backendVars, fsVars, cacheVars, call>>]_vars

\* The listing named one saved environment while another environment's
\* work directory, without a config file, was left out.
SavedEnvironmentsWitness ==
    /\ ret.exc = "none" /\ "ids" \in DOMAIN ret.value
    /\ ret.value.ids # {}
    /\ \E id \in dirs : id \notin ret.value.ids /\ config[id] = NoConfig

\* C12: load_environment of a saved environment's id returns an
\* environment equal to the saved one in every persisted field (id, name,
\* built, each network's ip_addresses, each node's cdrom and disks; work_dir
\* follows the id), with no driver reference anywhere.
SaveLoadRoundTrip ==
    [][\A id \in Ids, e \in Envs :
          (load_environment(id) /\ config[id] # NoConfig /\ envId[e] = id)
          => /\ ret'.value.id = envId[e]
             /\ ret'.value.name = e
             /\ ret'.value.built = built[e]
             /\ ~ret'.value.driver
             /\ \A n \in Nets : /\ ret'.value.networks[n].ip_addresses = ip[e][n]
                                /\ ~ret'.value.networks[n].driver
             /\ \A i \in Nodes : /\ ret'.value.nodes[i].cdrom = isopath[e][i]
                                 /\ ret'.value.nodes[i].disks = diskPath[e][i]
                                 /\ ~ret'.value.nodes[i].driver]_vars

\* A built environment with allocated blocks, a cached image and a
\* materialized disk has been saved and loaded back.
RoundTripWitness ==
    \E e \in Envs :
        /\ ret.exc = "none" /\ "networks" \in DOMAIN ret.value
        /\ ret.value.id = envId[e] /\ built[e] /\ envDriver[e]
        /\ ret.value.networks[1].ip_addresses = ip[e][1] /\ ip[e][1] # NoBlock
        /\ ret.value.nodes[1].cdrom.kind = "cached"
        /\ ret.value.nodes[1].disks[1] = "tmp"

\* C13: a step of build_environment that raises ends the call with that
\* error: no later step runs, and the work directory, the pool's allocated
\* blocks, the blocks the networks hold, the disk files and the networks,
\* disks and nodes on the backend all stay as they were; a build refused at
\* directory creation changes none of them either.
BuildFailureUndoesNothing ==
    [][/\ \A e \in Envs :
            (call.kind = "build" /\ call.env = e /\ call'.kind # "build" /\ ret'.exc # "none")
            => /\ call' = Idle
               /\ WorkDirExists(e)'
               /\ dirs \subseteq dirs'
               /\ allocated \subseteq allocated'
               /\ workFiles \subseteq workFiles'
               /\ ip' = ip
               /\ UNCHANGED <<backendVars, config, built>>
       /\ \A e \in Envs :
            (build_environment(e) /\ ret'.exc # "none" /\ call = Idle /\ call' = Idle)
            => UNCHANGED <<poolVars, backendVars, fsVars, cacheVars, built>>]_vars

\* A build has failed at the second network: the first network is still
\* started, both blocks are still allocated and the work directory exists.
BuildFailureWitness ==
    \E e \in Envs :
        /\ call = Idle /\ ret.exc = "DriverError"
        /\ life[e] = "new" /\ ~built[e]
        /\ WorkDirExists(e)
        /\ bNet[e][1] = "started" /\ bNet[e][2] = "absent"
        /\ ip[e][1] \in allocated /\ ip[e][2] \in allocated /\ ip[e][1] # ip[e][2]

\* C14: in destroy_environment a put that raises does not end the call:
\* the destroy goes on with the next network, or with dropping the
\* environment's driver reference and removing work_dir; the call returns
\* normally only from that last step, with both done, and every other way
\* it ends is with the error raised.
PutFailureIsSwallowed ==
    [][\A e \in Envs :
          /\ \A n \in Nets :
               (call = At("destroy", e, "put", n, 0)
                    /\ IpNetworksPool_put_raises(allocated, ip[e][n]))
               => /\ call' = (IF n < NumNets THEN At("destroy", e, "network_stop", n + 1, 0)
                              ELSE At("destroy", e, "finish", 0, 0))
                  /\ ret' = ret
                  /\ allocated' = allocated
          /\ (call.kind = "destroy" /\ call.env = e /\ call' = Idle)
             => \/ ret'.exc # "none"
                \/ /\ call.pc = "finish"
                   /\ ~envDriver'[e]
                   /\ ~WorkDirExists(e)']_vars

\* A destroy run by a Controller constructed after the build (its pool
\* never held the block) has passed the raising put of the first network
\* and reached the second network, which is still live.
PutFailureWitness ==
    \E e \in Envs :
        /\ call = At("destroy", e, "network_stop", 2, 0)
        /\ puts[e][1] = 1 /\ bNet[e][1] = "absent"
        /\ NetworkLive(e, 2) /\ ip[e][2] # NoBlock /\ ip[e][2] \notin allocated
        /\ allocated = {}
        /\ \A o \in Envs \ {e} : \A n \in Nets : ip[o][n] = NoBlock

\* The place of a step in the statement order of build_environment:
\* the cdrom loop, then get / create_network / start per network, then
\* per node its disks and its create_node, then the built flag.
StepRank(c) ==
    LET nets  == NumNodes + 3 * NumNets
        node  == NumDisks + 1
    IN  CASE c.pc = "cache"          -> c.i
          [] c.pc = "get"            -> NumNodes + 3 * (c.i - 1) + 1
          [] c.pc = "create_network" -> NumNodes + 3 * (c.i - 1) + 2
          [] c.pc = "start"          -> NumNodes + 3 * (c.i - 1) + 3
          [] c.pc = "disk"           -> nets + node * (c.i - 1) + c.d
          [] c.pc = "create_node"    -> nets + node * (c.i - 1) + node
          [] c.pc = "finish"         -> nets + node * NumNodes + 1

\* C15: a build runs its steps in statement order, one after the other:
\* the cache is used only in the cdrom loop, and when a block is taken from
\* the pool no node has an unresolved URL left; each network is got, then
\* created, then started, after all networks before it were started; disks
\* and nodes are created only when every network is started, node by node
\* in list order; built is set by the last step, when everything exists.
BuildStepOrder ==
    [][\A e \in Envs :
          (call.kind = "build" /\ call.env = e)
          => LET i == call.i IN
             /\ call'.kind = "build" => StepRank(call') = StepRank(call) + 1
             /\ (cacheVars' # cacheVars \/ isopath' # isopath) => call.pc = "cache"
             /\ (allocated' # allocated \/ ip' # ip)
                => /\ call.pc = "get"
                   /\ \A j \in Nodes : isopath[e][j].kind # "url"
                   /\ \A m \in Nets : m # i => ip'[e][m] = ip[e][m]
                   /\ \A m \in Nets : bNet[e][m] = (IF m < i THEN "started" ELSE "absent")
             /\ bNet' # bNet
                => /\ call.pc \in {"create_network", "start"}
                   /\ ip[e][i] \in allocated
                   /\ \A m \in Nets : m # i => bNet'[e][m] = bNet[e][m]
                   /\ \A m \in Nets : m < i => bNet[e][m] = "started"
                   /\ \A m \in Nets : m > i => bNet[e][m] = "absent"
                   /\ bNet[e][i] = (IF call.pc = "start" THEN "created" ELSE "absent")
                   /\ bNet'[e][i] = (IF call.pc = "start" THEN "started" ELSE "created")
             /\ (bDisk' # bDisk \/ bNode' # bNode \/ workFiles' # workFiles)
                => /\ call.pc \in {"disk", "create_node"}
                   /\ \A n \in Nets : bNet[e][n] = "started"
                   /\ \A j \in Nodes : bNode[e][j] = (j < i)
                   /\ \A j \in Nodes : j # i => bDisk'[e][j] = bDisk[e][j]
                   /\ \A j \in Nodes : j # i => bNode'[e][j] = bNode[e][j]
                   /\ bNode' # bNode => call.pc = "create_node"
             /\ built' # built
                => /\ call.pc = "finish" /\ call' = Idle
                   /\ \A n \in Nets : bNet[e][n] = "started"
                   /\ \A j \in Nodes : bNode[e][j]]_vars

\* A build stands before its last step: the URL of the first node is
\* resolved, every network is started on its own block, every node exists.
BuildOrderWitness ==
    \E e \in Envs :
        /\ call = At("build", e, "finish", 0, 0)
        /\ ~built[e]
        /\ isopath[e][1].kind = "cached"
        /\ \A n \in Nets : bNet[e][n] = "started" /\ ip[e][n] \in allocated
        /\ \A j \in Nodes : bNode[e][j] /\ bDisk[e][j][1] = 1

\* The place of a step in the statement order of destroy_environment:
\* stop / delete per node, then stop / delete / put per network, then the
\* environment's driver and work_dir.
DestroyRank(c) ==
    CASE c.pc = "node_stop"      -> 2 * (c.i - 1) + 1
      [] c.pc = "delete_node"    -> 2 * (c.i - 1) + 2
      [] c.pc = "network_stop"   -> 2 * NumNodes + 3 * (c.i - 1) + 1
      [] c.pc = "delete_network" -> 2 * NumNodes + 3 * (c.i - 1) + 2
      [] c.pc = "put"            -> 2 * NumNodes + 3 * (c.i - 1) + 3
      [] c.pc = "finish"         -> 2 * NumNodes + 3 * NumNets + 1

\* C16: a destroy runs its steps in statement order: a node is deleted and
\* loses its driver reference in the step after its stop; a network is
\* touched only when every node is deleted and without driver reference;
\* a block is put back only when its network is deleted and without driver
\* reference; the environment's driver reference and work_dir go only when
\* every node and network has been processed and every block put.
DestroyStepOrder ==
    [][\A e \in Envs :
          (call.kind = "destroy" /\ call.env = e)
          => LET i == call.i IN
             /\ call'.kind = "destroy" => DestroyRank(call') = DestroyRank(call) + 1
             /\ (bNode' # bNode \/ nodeDriver' # nodeDriver)
                => /\ call.pc = "delete_node"
                   /\ \A j \in Nodes : j # i => /\ bNode'[e][j] = bNode[e][j]
                                                /\ nodeDriver'[e][j] = nodeDriver[e][j]
                   /\ \A j \in Nodes : j < i => ~bNode[e][j] /\ ~nodeDriver[e][j]
             /\ (bNet' # bNet \/ netDriver' # netDriver)
                => /\ call.pc \in {"network_stop", "delete_network"}
                   /\ \A j \in Nodes : ~bNode[e][j] /\ ~nodeDriver[e][j]
                   /\ \A m \in Nets : m # i => /\ bNet'[e][m] = bNet[e][m]
                                               /\ netDriver'[e][m] = netDriver[e][m]
                   /\ \A m \in Nets : m < i => bNet[e][m] = "absent" /\ puts[e][m] >= 1
                   /\ netDriver' # netDriver => call.pc = "delete_network"
                   /\ bNet'[e][i] = "absent" => call.pc = "delete_network"
             /\ (allocated' # allocated \/ puts' # puts)
                => /\ call.pc = "put"
                   /\ bNet[e][i] = "absent" /\ ~netDriver[e][i]
                   /\ puts' = [puts EXCEPT ![e][i] = @ + 1]
                   /\ allocated' = allocated \ {ip[e][i]}
             /\ (envDriver' # envDriver \/ dirs' # dirs)
                => /\ call.pc = "finish"
                   /\ \A j \in Nodes : ~bNode[e][j] /\ ~nodeDriver[e][j]
                   /\ \A m \in Nets : /\ bNet[e][m] = "absent" /\ ~netDriver[e][m]
                                      /\ puts[e][m] >= 1]_vars

\* The destroy of a built environment stands before its last step: nodes
\* and networks are gone, both blocks are back, the driver reference and
\* work_dir are still there.
DestroyOrderWitness ==
    \E e \in Envs :
        /\ call = At("destroy", e, "finish", 0, 0)
        /\ life[e] = "built" /\ envDriver[e] /\ WorkDirExists(e)
        /\ \A j \in Nodes : ~bNode[e][j] /\ ~nodeDriver[e][j]
        /\ \A m \in Nets : bNet[e][m] = "absent" /\ puts[e][m] = 1 /\ ip[e][m] \notin allocated

\* C17: a disk path that is set is never changed by any step, and no step
\* makes a file in work_dir for a disk whose path is set.
DiskPathNeverReassigned ==
    [][\A e \in Envs, i \in Nodes, d \in Disks :
          diskPath[e][i][d] # "null"
          => /\ diskPath'[e][i][d] = diskPath[e][i][d]
             /\ <<e, i, d>> \in workFiles' => <<e, i, d>> \in workFiles]_vars

\* A second build of a destroyed environment has passed the disks of its
\* first node: the disk materialized by the first build keeps its path and
\* has no file, the disk that arrived with a path keeps it too.
DiskPathWitness ==
    \E e \in Envs :
        /\ call = At("build", e, "create_node", 1, 0)
        /\ life[e] = "destroyed"
        /\ diskPath[e][1][1] = "tmp" /\ <<e, 1, 1>> \notin workFiles
        /\ diskPath[e][1][2] = "ext" /\ <<e, 1, 2>> \notin workFiles

\* C18 as stated: when a build reaches Driver.create_node for a node,
\* Driver.create_disk has been invoked once for every disk of that node,
\* the disks that arrived with a path included.
CreateDiskForEveryDisk ==
    \A e \in Envs :
        (call.kind = "build" /\ call.env = e /\ call.pc = "create_node")
        => \A d \in Disks : bDisk[e][call.i][d] = 1

\* C18 amended: Driver.create_disk is invoked only in the step of a build
\* that materializes the disk's file, once, before the node is created;
\* the step of a disk that has a path invokes nothing; and when
\* Driver.create_node is invoked every disk of the node has a path and
\* every disk with a file in work_dir has had its create_disk.
CreateDiskForMaterializedDisks ==
    [][\A e \in Envs, i \in Nodes, d \in Disks :
          /\ bDisk'[e][i][d] # bDisk[e][i][d]
             => /\ call = At("build", e, "disk", i, d)
                /\ diskPath[e][i][d] = "null" /\ diskPath'[e][i][d] # "null"
                /\ <<e, i, d>> \in workFiles' \ workFiles
                /\ bDisk'[e][i][d] = bDisk[e][i][d] + 1
                /\ ~bNode[e][i]
          /\ (call = At("build", e, "disk", i, d) /\ call'.kind = "build")
             => bDisk'[e][i][d] = bDisk[e][i][d] + (IF diskPath[e][i][d] = "null" THEN 1 ELSE 0)
          /\ (call.kind = "build" /\ call.env = e /\ bNode'[e][i] # bNode[e][i])
             => /\ call.pc = "create_node" /\ call.i = i
                /\ \A x \in Disks : diskPath[e][i][x] # "null"
                /\ \A x \in Disks : <<e, i, x>> \in workFiles => bDisk[e][i][x] = 1]_vars

\* A build stands before Driver.create_node of its first node: the disk
\* it materialized has had one create_disk, the disk that arrived with a
\* path has had none.
CreateDiskWitness ==
    \E e \in Envs :
        /\ call = At("build", e, "create_node", 1, 0)
        /\ <<e, 1, 1>> \in workFiles /\ bDisk[e][1][1] = 1
        /\ diskPath[e][1][2] = "ext" /\ bDisk[e][1][2] = 0

\* C20: the first step of build_environment keeps the id the environment
\* has and gives it one only when it has none; if the work directory of
\* that id exists the call ends there with the error of mkdir, and the
\* pool, the backend, the files, the cache and the environment's driver
\* reference are as before; otherwise the directory is made and the build
\* goes on to the cdrom loop, the pool, backend and cache still untouched.
BuildFailsOnExistingWorkDir ==
    [][\A e \in Envs :
          build_environment(e)
          => /\ envId[e] # NoId => envId'[e] = envId[e]
             /\ envId[e] = NoId => envId'[e] \in Ids /\ envId'[e][1] = e
             /\ \A o \in Envs \ {e} : envId'[o] = envId[o]
             /\ UNCHANGED <<poolVars, backendVars, cacheVars, built, config, workFiles>>
             /\ IF envId'[e] \in dirs
                THEN /\ ret' = Raised("OSError")
                     /\ call' = Idle
                     /\ UNCHANGED <<dirs, envDriver>>
                ELSE /\ call' = At("build", e, "cache", 1, 0)
                     /\ dirs' = dirs \cup {envId'[e]}
                     /\ ret' = ret]_vars

\* A built environment that was not destroyed has been built again: the
\* call failed at mkdir, and the environment's networks, nodes, blocks and
\* directory are as the first build left them.
BuildAgainWitness ==
    \E e \in Envs :
        /\ call = Idle /\ ret = Raised("OSError")
        /\ life[e] = "built" /\ built[e] /\ envDriver[e] /\ WorkDirExists(e)
        /\ \A n \in Nets : bNet[e][n] = "started" /\ ip[e][n] \in allocated
        /\ \A j \in Nodes : bNode[e][j]
        /\ \A o \in Envs \ {e} : envId[o] = NoId

\* C19: nothing protects the index between a process's read and its
\* write: whenever a process writes the index and the file then holds a
\* mapping, for another URL, that the process did not see when it read,
\* that mapping is gone after the write, although its download completed.
IndexRaceLosesMapping ==
    [][\A p \in Procs, u \in RaceUrls :
          (/\ race_write(p)
           /\ u # proc[p].url
           /\ has_key(race_cache_entries, u)
           /\ ~has_key(proc[p].cache_entries, u))
          => /\ ~has_key(cacheLog'.entries, u)
             /\ has_key(cacheLog'.entries, proc[p].url)
             /\ downloads'[u] >= 1]_vars

\* Both processes are back from _cache_file, each having downloaded its
\* own URL once without error, and the index holds one of the two URLs
\* only.
LostMappingWitness ==
    \E u, w \in RaceUrls :
        /\ u # w
        /\ \A p \in Procs : proc[p].pc = "idle" /\ proc[p].exc = "none" /\ proc[p].result # 0
        /\ proc[1].result # proc[2].result
        /\ downloads[u] = 1 /\ downloads[w] = 1
        /\ cacheLog.exists
        /\ ~has_key(cacheLog.entries, u)
        /\ has_key(cacheLog.entries, w)

====
